---- MODULE Spec2Model ----
(***************************************************************************)
(* A model of class IpoptMPC (mpc_to_line/src/Ipopt_MPC.h).                *)
(*                                                                         *)
(* The header defines two member functions inline, readRoadmapFromCSV and  *)
(* parseRoadMapLine, which fill the waypoint store waypoints_.  They are   *)
(* modelled from their code: std::getline, std::stof and the exception a   *)
(* failed conversion throws.  The constructor, Solve and the solver        *)
(* callbacks (get_nlp_info, get_starting_point, eval_jac_g, eval_h) are    *)
(* declared in the header and defined nowhere in it: they are not          *)
(* modelled.  Nothing in the header writes the centerline arrays; the      *)
(* step that fills them is modelled from the design document and marked    *)
(* so, to have states in which the arrays are not empty.                   *)
(*                                                                         *)
(* Text is a sequence of one-character strings.  A double is a dyadic      *)
(* rational [m |-> mantissa, e |-> exponent] standing for m * 2^e, with m  *)
(* odd, or m = 0 and e = 0.                                                *)
(***************************************************************************)
EXTENDS Integers, Sequences, FiniteSets, TLC

VARIABLES
    waypoints_,   \* std::vector<std::vector<double>>  (Ipopt_MPC.h:112)
    cl_x_,        \* std::vector<double> center line x
    cl_y_,        \* std::vector<double> center line y
    cl_phi_,      \* std::vector<double> center line direction
    x0_,          \* std::vector<double> initial state variables
    map_sz_,      \* int, size of segments of the map
    op,           \* the member function that has just returned ("none": the
                  \* caller is between calls)
    arg,          \* the text it was called with
    result,       \* "ok", or the exception that left it
    before        \* the data members as they were when that call began

----------------------------------------------------------------------------
(* Characters *)

Digits == <<"0", "1", "2", "3", "4", "5", "6", "7", "8", "9">>

IsDigit(c) == \E i \in 1..10 : Digits[i] = c

DigitVal(c) == (CHOOSE i \in 1..10 : Digits[i] = c) - 1

\* the vertical tab, character 11: the string holds the character itself
VerticalTab == ""

\* std::isspace in the "C" locale: the space and the characters 9 to 13
IsSpace(c) == c \in {" ", "\t", "\n", VerticalTab, "\f", "\r"}

Tail_(s, n) == SubSeq(s, n + 1, Len(s))

\* F applied to the value of x: a local variable, computed once
With(x, F(_)) == CHOOSE r \in {F(v) : v \in {x}} : TRUE

----------------------------------------------------------------------------
(* Arithmetic on doubles and floats *)

RECURSIVE Pow2(_)
Pow2(n) == IF n = 0 THEN 1 ELSE 2 * Pow2(n - 1)

RECURSIVE Pow10(_)
Pow10(n) == IF n = 0 THEN 1 ELSE 10 * Pow10(n - 1)

\* a / b (a >= 0, b > 0) rounded to the nearest integer, ties to even:
\* the IEEE 754 rounding of the default floating-point environment
RoundHalfEven(a, b) ==
    LET q == a \div b
        r == a % b
    IN  IF 2 * r < b THEN q
        ELSE IF 2 * r > b THEN q + 1
        ELSE IF q % 2 = 0 THEN q ELSE q + 1

RECURSIVE Normalise(_, _)
Normalise(m, e) ==
    IF m = 0 THEN [m |-> 0, e |-> 0]
    ELSE IF m % 2 = 0 THEN Normalise(m \div 2, e + 1)
    ELSE [m |-> m, e |-> e]

\* the number of significand bits of float (FLT_MANT_DIG)
FloatBits == 24

\* 2^FloatBits: a float's significand is an integer below it
FloatLimit == Pow2(FloatBits)

\* the least e >= from with num / (den * 2^e) < 2^FloatBits
RECURSIVE ShiftDown(_, _, _)
ShiftDown(num, den, from) ==
    IF num \div (den * Pow2(from)) < FloatLimit THEN from
    ELSE ShiftDown(num, den, from + 1)

\* num doubled while it stays below limit: [n |-> num * 2^s, s |-> s]
RECURSIVE ShiftUp(_, _, _)
ShiftUp(num, limit, s) ==
    IF 2 * num < limit THEN ShiftUp(2 * num, limit, s + 1) ELSE [n |-> num, s |-> s]

\* the float nearest to num / 10^k (num >= 0), as a dyadic rational.  The
\* magnitudes the model reads lie far inside float's normal range, where a
\* float is a significand of FloatBits bits times a power of two.
ToFloat(num, k) ==
    IF num = 0 THEN [m |-> 0, e |-> 0]
    ELSE With(Pow10(k), LAMBDA den :
             IF num \div den >= FloatLimit
             THEN With(ShiftDown(num, den, 1), LAMBDA e :
                      Normalise(RoundHalfEven(num, den * Pow2(e)), e))
             ELSE With(ShiftUp(num, den * FloatLimit, 0), LAMBDA u :
                      Normalise(RoundHalfEven(u.n, den), 0 - u.s)))

Neg(v) == [m |-> 0 - v.m, e |-> v.e]

Min(a, b) == IF a < b THEN a ELSE b

\* a - b on doubles (exact at the magnitudes the model reads)
Sub(a, b) ==
    With(Min(a.e, b.e), LAMBDA e :
        Normalise(a.m * Pow2(a.e - e) - b.m * Pow2(b.e - e), e))

----------------------------------------------------------------------------
(* The standard library calls of the two member functions *)

\* The texts the model reads are made of digits, "-", "+", ".", " ", ",",
\* the newline, the vertical tab and the letters "a" and "m".  std::stof also reads an exponent
\* (e, E, p, P), a hexadecimal prefix (x, X) and the words inf and nan; no
\* letter that may begin or continue one of them is among these characters.

\* the position of the first delim in s, or 0
RECURSIVE FindFirst(_, _, _)
FindFirst(s, delim, i) ==
    IF i > Len(s) THEN 0
    ELSE IF s[i] = delim THEN i
    ELSE FindFirst(s, delim, i + 1)

\* std::getline(stream, str, delim), the stream given by its unread
\* characters.  At end of input it extracts nothing and fails; otherwise it
\* extracts up to the delimiter, which it consumes, or up to the end.
getline(stream, delim) ==
    IF stream = <<>> THEN [ok |-> FALSE, str |-> <<>>, rest |-> <<>>]
    ELSE With(FindFirst(stream, delim, 1), LAMBDA i :
             IF i = 0
             THEN [ok |-> TRUE, str |-> stream, rest |-> <<>>]
             ELSE [ok |-> TRUE, str |-> SubSeq(stream, 1, i - 1),
                   rest |-> Tail_(stream, i)])

RECURSIVE SkipSpace(_)
SkipSpace(s) ==
    IF s # <<>> /\ IsSpace(s[1]) THEN SkipSpace(Tail(s)) ELSE s

\* the number of digits s begins with
RECURSIVE CountDigits(_)
CountDigits(s) ==
    IF s # <<>> /\ IsDigit(s[1]) THEN 1 + CountDigits(Tail(s)) ELSE 0

\* the value of a sequence of digits read in base ten, continuing from acc
RECURSIVE DigitsValue(_, _)
DigitsValue(s, acc) ==
    IF s = <<>> THEN acc ELSE DigitsValue(Tail(s), 10 * acc + DigitVal(s[1]))

\* The decimal number s begins with, after white space: an optional sign,
\* digits, an optional point and digits, with one digit at least.
\* [found, neg, num, k, used]: the number is (-1)^neg * num / 10^k and `used`
\* counts the characters of s it took, white space included.
ScanDecimal(s) ==
    With(SkipSpace(s), LAMBDA t :
    With(t # <<>> /\ t[1] \in {"-", "+"}, LAMBDA signed :
    With(IF signed THEN Tail(t) ELSE t, LAMBDA u :
    With(CountDigits(u), LAMBDA ni :
    With(Tail_(u, ni), LAMBDA v :
    With(v # <<>> /\ v[1] = ".", LAMBDA point :
    With(IF point THEN CountDigits(Tail(v)) ELSE 0, LAMBDA nf :
        [found |-> ni + nf > 0,
         neg   |-> signed /\ t[1] = "-",
         num   |-> DigitsValue(SubSeq(u, 1, ni)
                                 \o (IF point THEN SubSeq(v, 2, nf + 1) ELSE <<>>), 0),
         k     |-> nf,
         \* a point is part of the number only if a digit stands on a side of it
         used  |-> (Len(s) - Len(u))
                     + (IF point /\ (ni + nf > 0) THEN ni + 1 + nf ELSE ni)])))))))

\* std::stof(str): strtof converts the longest prefix that is a number and
\* ignores what follows it; with no conversion stof throws
\* std::invalid_argument.  The result is a float.
stof(str) ==
    With(ScanDecimal(str), LAMBDA d :
        IF ~d.found THEN [err |-> "invalid_argument", val |-> [m |-> 0, e |-> 0]]
        ELSE [err |-> "none",
              val |-> IF d.neg THEN Neg(ToFloat(d.num, d.k)) ELSE ToFloat(d.num, d.k)])

----------------------------------------------------------------------------
(* The member functions defined in the header *)

\* the loop of parseRoadMapLine: wp is the local vector
RECURSIVE ParseFields(_, _)
ParseFields(line_stream, wp) ==
    With(getline(line_stream, ","), LAMBDA g :
        IF ~g.ok THEN [err |-> "none", wp |-> wp]
        ELSE With(stof(g.str), LAMBDA f :
                 IF f.err # "none" THEN [err |-> f.err, wp |-> wp]
                 ELSE With(Append(wp, f.val), LAMBDA pushed :
                          ParseFields(g.rest, pushed))))

\* a parseRoadMapLine that stores what it converted before the exception
parseRoadMapLine_partial(wps, line) ==
    With(ParseFields(line, <<>>), LAMBDA p :
        [err |-> p.err, waypoints |-> Append(wps, p.wp)])

\* a parseRoadMapLine that skips a waypoint the store holds already
parseRoadMapLine_dedup(wps, line) ==
    With(ParseFields(line, <<>>), LAMBDA p :
        IF p.err # "none" THEN [err |-> p.err, waypoints |-> wps]
        ELSE IF \E i \in 1..Len(wps) : wps[i] = p.wp
             THEN [err |-> "none", waypoints |-> wps]
             ELSE [err |-> "none", waypoints |-> Append(wps, p.wp)])

\* parseRoadMapLine(line) on the store wps: the store it leaves, and the
\* exception that leaves it ("none": it returns).  The push_back is reached
\* only when the loop ends without a throw.
parseRoadMapLine(wps, line) ==
    With(ParseFields(line, <<>>), LAMBDA p :
        IF p.err # "none" THEN [err |-> p.err, waypoints |-> wps]
        ELSE [err |-> "none", waypoints |-> Append(wps, p.wp)])

\* a loop that skips a record parseRoadMapLine throws on and goes on
RECURSIVE ReadLines_skip(_, _)
ReadLines_skip(rm_stream, wps) ==
    With(getline(rm_stream, "\n"), LAMBDA g :
        IF ~g.ok THEN [err |-> "none", waypoints |-> wps]
        ELSE With(parseRoadMapLine(wps, g.str), LAMBDA p :
                 ReadLines_skip(g.rest, p.waypoints)))

\* the loop of readRoadmapFromCSV: an exception of parseRoadMapLine is not
\* caught, so it ends the loop and leaves the function
RECURSIVE ReadLines(_, _)
ReadLines(rm_stream, wps) ==
    With(getline(rm_stream, "\n"), LAMBDA g :
        IF ~g.ok THEN [err |-> "none", waypoints |-> wps]
        ELSE With(parseRoadMapLine(wps, g.str), LAMBDA p :
                 IF p.err # "none" THEN p
                 ELSE ReadLines(g.rest, p.waypoints)))

\* readRoadmapFromCSV(roadmap_file_name): the argument is itself the text
\* that is read (std::istringstream), not the name of a file
readRoadmapFromCSV(wps, roadmap_file_name) == ReadLines(roadmap_file_name, wps)

----------------------------------------------------------------------------
(* The texts the member functions are called with *)

\* The records: two well-formed waypoints (the second with a coordinate that
\* float cannot hold), the malformed record of the design document, a blank
\* line, a single field after white space, a field with text after its
\* digits, a record ending in a comma, and a field after a vertical tab.
Lines ==
    { <<"1", ",", "-", "2">>,
      <<"0", ".", "5", ",", "1", "6", "7", "7", "7", "2", "1", "7">>,
      <<"1", ",", "a">>,
      <<>>,
      <<" ", "3">>,
      <<"1", ",", "2", "m">>,
      <<"4", ",", "5", ",">>,
      <<"1", ",", VerticalTab, "2">> }

\* the most records in a text put together from Lines
MaxRecords == 2

\* a member function is called while the store holds at most this many waypoints
MaxPrior == 1

RECURSIVE JoinLines(_)
JoinLines(ls) ==
    IF ls = <<>> THEN <<>>
    ELSE IF Len(ls) = 1 THEN ls[1]
    ELSE ls[1] \o <<"\n">> \o JoinLines(Tail(ls))

LineSeqs == UNION {[1..n -> Lines] : n \in 0..MaxRecords}

\* longer texts: the roadmap of the design document, "0,0\n1,0\n2,0\n3,0", and
\* a malformed record between two well-formed ones
Examples ==
    { <<"0", ",", "0", "\n", "1", ",", "0", "\n", "2", ",", "0", "\n", "3", ",", "0">>,
      <<"1", ",", "-", "2", "\n", "1", ",", "a", "\n",
        "0", ".", "5", ",", "1", "6", "7", "7", "7", "2", "1", "7">> }

\* every text of at most MaxRecords records, with and without a final newline,
\* and the examples
Texts ==
    {JoinLines(ls) : ls \in LineSeqs}
        \cup {JoinLines(ls) \o <<"\n">> : ls \in LineSeqs}
        \cup Examples

----------------------------------------------------------------------------
(* The state machine of the waypoint store *)

store == <<waypoints_, cl_x_, cl_y_, cl_phi_, x0_, map_sz_>>

vars == <<waypoints_, cl_x_, cl_y_, cl_phi_, x0_, map_sz_, op, arg, result, before>>

Members ==
    [waypoints_ |-> waypoints_, cl_x_ |-> cl_x_, cl_y_ |-> cl_y_,
     cl_phi_ |-> cl_phi_, x0_ |-> x0_, map_sz_ |-> map_sz_]

\* map_sz_ is an int without an initializer and the constructor is not defined
\* in the header: after construction the member holds an indeterminate value,
\* any int.  No function the header defines reads it or writes it.  The model
\* keeps for the member the range of the values it may hold, not one value
\* picked out of the range: a state of the model stands for every state of the
\* program whose map_sz_ is in the range.
IndeterminateInts == [lo |-> -2147483647 - 1, hi |-> 2147483647]

\* the member m of the model stands for the value v of the program
MayHold(m, v) == m.lo <= v /\ v <= m.hi

\* The vectors are default-constructed: empty.
InitStore ==
    /\ waypoints_ = <<>>
    /\ cl_x_ = <<>>
    /\ cl_y_ = <<>>
    /\ cl_phi_ = <<>>
    /\ x0_ = <<>>
    /\ map_sz_ = IndeterminateInts
    /\ op = "none"
    /\ arg = <<>>
    /\ result = "ok"
    /\ before = Members

Outcome(err) == IF err = "none" THEN "ok" ELSE err

\* a call of parseRoadMapLine(line)
CallParseRoadMapLine ==
    /\ op = "none"
    /\ Len(waypoints_) <= MaxPrior
    /\ \E line \in Lines :
         \E r \in {parseRoadMapLine(waypoints_, line)} :
             /\ waypoints_' = r.waypoints
             /\ op' = "parseRoadMapLine"
             /\ arg' = line
             /\ result' = Outcome(r.err)
    /\ before' = Members
    /\ UNCHANGED <<cl_x_, cl_y_, cl_phi_, x0_, map_sz_>>

\* a readRoadmapFromCSV that also renews the cached centerline x and y from
\* the waypoints that have them
CallReadRoadmapFromCSV_refresh ==
    /\ op = "none"
    /\ Len(waypoints_) <= MaxPrior
    /\ \E text \in Texts :
         \E r \in {readRoadmapFromCSV(waypoints_, text)} :
         \E xy \in {SelectSeq(r.waypoints, LAMBDA w : Len(w) >= 2)} :
             /\ waypoints_' = r.waypoints
             /\ cl_x_' = [i \in 1..Len(xy) |-> xy[i][1]]
             /\ cl_y_' = [i \in 1..Len(xy) |-> xy[i][2]]
             /\ op' = "readRoadmapFromCSV"
             /\ arg' = text
             /\ result' = Outcome(r.err)
    /\ before' = Members
    /\ UNCHANGED <<cl_phi_, x0_, map_sz_>>

\* a call of readRoadmapFromCSV(text)
CallReadRoadmapFromCSV ==
    /\ op = "none"
    /\ Len(waypoints_) <= MaxPrior
    /\ \E text \in Texts :
         \E r \in {readRoadmapFromCSV(waypoints_, text)} :
             /\ waypoints_' = r.waypoints
             /\ op' = "readRoadmapFromCSV"
             /\ arg' = text
             /\ result' = Outcome(r.err)
    /\ before' = Members
    /\ UNCHANGED <<cl_x_, cl_y_, cl_phi_, x0_, map_sz_>>

\* the caller goes on after a call: what is recorded of the call is dropped
Return ==
    /\ op # "none"
    /\ op' = "none"
    /\ arg' = <<>>
    /\ result' = "ok"
    /\ before' = Members
    /\ UNCHANGED store

Init == InitStore

Next == CallParseRoadMapLine \/ CallReadRoadmapFromCSV \/ Return

Spec == Init /\ [][Next]_vars

----------------------------------------------------------------------------
(* The centerline arrays.  The header declares cl_x_, cl_y_ and cl_phi_ and  *)
(* defines nothing that writes them.  The design document (4.1) has them     *)
(* computed once from the waypoint sequence and cached, the heading from     *)
(* consecutive-point deltas; that computation is modelled from it.           *)

\* The heading of the segment from waypoint a to waypoint b, kept as the
\* delta it is the direction of.
Heading(a, b) == [dx |-> Sub(b[1], a[1]), dy |-> Sub(b[2], a[2])]

\* one heading per pair of consecutive waypoints
Headings(wps) == [i \in 1..(Len(wps) - 1) |-> Heading(wps[i], wps[i + 1])]

\* the roadmap can be turned into a centerline: it has a waypoint, and every
\* waypoint has its x and its y
ValidRoadmap(wps) == Len(wps) >= 1 /\ \A i \in 1..Len(wps) : Len(wps[i]) >= 2

ComputeCenterline ==
    /\ op = "none"
    /\ cl_x_ = <<>> /\ cl_y_ = <<>> /\ cl_phi_ = <<>>
    /\ ValidRoadmap(waypoints_)
    /\ cl_x_' = [i \in 1..Len(waypoints_) |-> waypoints_[i][1]]
    /\ cl_y_' = [i \in 1..Len(waypoints_) |-> waypoints_[i][2]]
    /\ cl_phi_' = Headings(waypoints_)
    /\ op' = "computeCenterline"
    /\ arg' = <<>>
    /\ result' = "ok"
    /\ before' = Members
    /\ UNCHANGED <<waypoints_, x0_, map_sz_>>

NextCenterline == Next \/ ComputeCenterline

SpecCenterline == Init /\ [][NextCenterline]_vars

----------------------------------------------------------------------------
(* What a text says, read without the code: the vocabulary of the properties *)

\* s cut at every delim: one piece more than there are delims
RECURSIVE Split(_, _)
Split(s, delim) ==
    LET i == FindFirst(s, delim, 1)
    IN  IF i = 0 THEN <<s>>
        ELSE <<SubSeq(s, 1, i - 1)>> \o Split(Tail_(s, i), delim)

\* the delim-terminated pieces of s: a final delim ends the last piece and
\* begins no other, and the empty text has no piece
Pieces(s, delim) ==
    LET ps == Split(s, delim)
    IN  IF ps[Len(ps)] = <<>> THEN SubSeq(ps, 1, Len(ps) - 1) ELSE ps

\* the newline-delimited records of a text
Records(text) == Pieces(text, "\n")

\* the comma-separated fields of a record
Fields(record) == Split(record, ",")

\* the whole field is a decimal number
IsNumber(f) ==
    LET d == ScanDecimal(f)
    IN  d.found /\ d.used = Len(f) /\ ~IsSpace(f[1])

\* the same, white space before the number allowed
IsNumberAfterSpace(f) == SkipSpace(f) # <<>> /\ IsNumber(SkipSpace(f))

AllNumeric(text) ==
    \A i \in 1..Len(Records(text)) :
        \A j \in 1..Len(Fields(Records(text)[i])) : IsNumber(Fields(Records(text)[i])[j])

\* the double v is exactly the number the field f writes
HoldsExactly(v, f) ==
    LET d == ScanDecimal(f)
        n == IF d.neg THEN 0 - d.num ELSE d.num
    IN  IF v.e >= 0 THEN v.m * Pow2(v.e) * Pow10(d.k) = n
        ELSE v.m * Pow10(d.k) = n * Pow2(0 - v.e)

\* the double v is the float nearest to the number the field f writes
HoldsAsFloat(v, f) == v = stof(f).val

IsPrefix(s, t) == Len(s) <= Len(t) /\ SubSeq(t, 1, Len(s)) = s

Ingestion == {"parseRoadMapLine", "readRoadmapFromCSV"}

\* the strings parseRoadMapLine hands to std::stof
Converted(line) == Pieces(line, ",")

SomeFieldFailsConversion(line) ==
    \E j \in 1..Len(Converted(line)) : stof(Converted(line)[j]).err # "none"

\* the position of the first record of text a conversion fails on, or 0
FirstMalformed(text) ==
    LET bad == {i \in 1..Len(Records(text)) : SomeFieldFailsConversion(Records(text)[i])}
    IN  IF bad = {} THEN 0 ELSE CHOOSE i \in bad : \A k \in bad : i <= k

\* the waypoint of a record every field of which converts
WaypointOf(record) ==
    [j \in 1..Len(Converted(record)) |-> stof(Converted(record)[j]).val]

\* what the call recorded in op appends to an empty store
Yield ==
    IF op = "parseRoadMapLine" THEN parseRoadMapLine(<<>>, arg).waypoints
    ELSE readRoadmapFromCSV(<<>>, arg).waypoints

----------------------------------------------------------------------------
(* Properties of the waypoint store *)

\* C1: after readRoadmapFromCSV on a text all of whose records consist of
\* numeric comma-separated fields, waypoints_ is its previous contents
\* followed by one waypoint per record, in record order, each holding the
\* numbers its record's fields write, left to right.
C1_OneWaypointPerRecord ==
    (op = "readRoadmapFromCSV" /\ AllNumeric(arg)) =>
        LET recs == Records(arg)
            k    == Len(before.waypoints_)
        IN  /\ result = "ok"
            /\ Len(waypoints_) = k + Len(recs)
            /\ IsPrefix(before.waypoints_, waypoints_)
            /\ \A i \in 1..Len(recs) :
                 /\ Len(waypoints_[k + i]) = Len(Fields(recs[i]))
                 /\ \A j \in 1..Len(Fields(recs[i])) :
                      HoldsExactly(waypoints_[k + i][j], Fields(recs[i])[j])

\* What holds in C1's place: each stored value is the float nearest to the
\* number its field writes (std::stof), widened to double.
OneWaypointPerRecordAsFloat ==
    (op = "readRoadmapFromCSV" /\ AllNumeric(arg)) =>
        LET recs == Records(arg)
            k    == Len(before.waypoints_)
        IN  /\ result = "ok"
            /\ Len(waypoints_) = k + Len(recs)
            /\ IsPrefix(before.waypoints_, waypoints_)
            /\ \A i \in 1..Len(recs) :
                 /\ Len(waypoints_[k + i]) = Len(Fields(recs[i]))
                 /\ \A j \in 1..Len(Fields(recs[i])) :
                      HoldsAsFloat(waypoints_[k + i][j], Fields(recs[i])[j])

\* C2: when parseRoadMapLine is given a record some field of which fails the
\* numeric conversion, the exception reaches the caller and waypoints_ is
\* what it was before the call: no waypoint is appended, not even one made of
\* the fields before the bad one.
C2_MalformedAppendsNothing ==
    (op = "parseRoadMapLine" /\ SomeFieldFailsConversion(arg)) =>
        (result = "invalid_argument" /\ waypoints_ = before.waypoints_)

\* C2's case: "1,a" given to parseRoadMapLine while the store holds a waypoint
C2_Witness ==
    /\ op = "parseRoadMapLine"
    /\ arg = <<"1", ",", "a">>
    /\ result = "invalid_argument"
    /\ Len(before.waypoints_) = 1
    /\ waypoints_ = before.waypoints_

\* C3: parseRoadMapLine fails, and stores nothing, for every record with a
\* comma-separated field whose whole text is not a number.  (A blank record
\* is left out: it may be said to have no field.)
C3_NonNumericFieldRejected ==
    (op = "parseRoadMapLine" /\ arg # <<>>
        /\ \E j \in 1..Len(Fields(arg)) : ~IsNumberAfterSpace(Fields(arg)[j])) =>
        (result # "ok" /\ waypoints_ = before.waypoints_)

\* C4: every waypoint stored in waypoints_ has at least two fields.
C4_AtLeastTwoFields ==
    \A i \in 1..Len(waypoints_) : Len(waypoints_[i]) >= 2

\* C5: across every call of readRoadmapFromCSV and parseRoadMapLine, failing
\* or not, the store before the call is a prefix of the store after it, and
\* what is appended is what the same call appends to an empty store: nothing
\* is left out because the store holds it already.
C5_AppendOnly ==
    (op \in Ingestion) =>
        /\ IsPrefix(before.waypoints_, waypoints_)
        /\ waypoints_ = before.waypoints_ \o Yield

\* C5's case: a text is read into a store that holds exactly the waypoints
\* of that text, and the store then holds each of them twice
C5_Witness ==
    /\ op = "readRoadmapFromCSV"
    /\ result = "ok"
    /\ before.waypoints_ # <<>>
    /\ Yield = before.waypoints_
    /\ waypoints_ = before.waypoints_ \o before.waypoints_

\* C9: when a conversion fails on record i of the text readRoadmapFromCSV
\* reads, the exception reaches the caller, the waypoints of records 1..i-1
\* have been appended, and nothing of record i or of a later record is.
C9_HaltsAtMalformed ==
    (op = "readRoadmapFromCSV" /\ FirstMalformed(arg) # 0) =>
        /\ result = "invalid_argument"
        /\ waypoints_ = before.waypoints_ \o
              [i \in 1..(FirstMalformed(arg) - 1) |-> WaypointOf(Records(arg)[i])]

\* C9's case: a malformed record between two well-formed ones, read into a
\* store that holds a waypoint
C9_Witness ==
    /\ op = "readRoadmapFromCSV"
    /\ Len(Records(arg)) = 3
    /\ FirstMalformed(arg) = 2
    /\ ~SomeFieldFailsConversion(Records(arg)[3])
    /\ result = "invalid_argument"
    /\ Len(before.waypoints_) = 1
    /\ Len(waypoints_) = 2

\* C10: a call of readRoadmapFromCSV or parseRoadMapLine, failing or not,
\* leaves x0_, map_sz_, cl_x_, cl_y_ and cl_phi_ as they were.
C10_IngestionFrame ==
    (op \in Ingestion) =>
        /\ x0_ = before.x0_
        /\ map_sz_ = before.map_sz_
        /\ cl_x_ = before.cl_x_
        /\ cl_y_ = before.cl_y_
        /\ cl_phi_ = before.cl_phi_

\* C10's case: waypoints are read after the centerline was computed, and the
\* cached arrays are shorter than the store
C10_Witness ==
    /\ op = "readRoadmapFromCSV"
    /\ result = "ok"
    /\ cl_x_ # <<>>
    /\ Len(waypoints_) > Len(before.waypoints_)
    /\ Len(cl_x_) < Len(waypoints_)
    /\ Len(cl_phi_) < Len(waypoints_) - 1

====
